---- MODULE Spec2Model ----
(***************************************************************************)
(* Model of algorithms_keeper.parser.record: the PullRequestReviewRecord   *)
(* that aggregates lint reports into review comments (one per file and     *)
(* line) and derives the labels to add to / remove from a pull request.    *)
(*                                                                         *)
(* A Python string that the code builds by concatenation is modelled as    *)
(* the sequence of the fragments it is built from: "a" + "\n\n" + "b" is   *)
(* <<"a", "\n\n", "b">>.  A message is one fragment.                       *)
(***************************************************************************)
EXTENDS Integers, Sequences, FiniteSets, TLC

\* ------------------------------------------------------------------ bounds
\* Reports passed to add_comments plus add_error calls, over the life of one
\* record: every one of them adds one message to the comments.
MaxInputs == 3
\* fill_labels calls over the life of one record.
MaxFills == 2

\* ------------------------------------------------------------------ inputs
Paths == {"a.py", "b.py"}
Lines == {1, 2}
Messages == {"m1", "m2"}
Tracebacks == {"tb"}
\* Optional[int]: None is <<>>, the integer n is <<n>>.
None == <<>>
OptLines == {None} \cup {<<n>> : n \in Lines}

\* ------------------------------------------------------- record.py:9-13
\* The dict in its insertion order, which is the order items() iterates in.
\* The labels are the attributes of algorithms_keeper.constants.Label.
RULE_TO_LABEL ==
    << <<"RequireDescriptiveNameRule", "DESCRIPTIVE_NAME">>,
       <<"RequireDoctestRule", "REQUIRE_TEST">>,
       <<"RequireTypeHintRule", "TYPE_HINT">> >>

KnownRules == {RULE_TO_LABEL[i][1] : i \in DOMAIN RULE_TO_LABEL}
RuleLabels == {RULE_TO_LABEL[i][2] : i \in DOMAIN RULE_TO_LABEL}
\* A rule of the linter that has no entry in RULE_TO_LABEL.
UnknownRules == {"NamingConventionRule"}
Codes == KnownRules \cup UnknownRules

\* BaseLintRuleReport, as far as add_comments reads it.
\* The reports of the linting runs come from one rule with a label and one without.
Reports == [line : Lines, message : Messages,
            code : {"RequireTypeHintRule"} \cup UnknownRules]
\* The reports of the labelling runs: every code, at one line, with one message.
CodeReports == [line : {1}, message : {"m1"}, code : Codes]

\* The lists of labels a pull request can carry; only membership is read.
LabelLists == SUBSET RuleLabels

SeqsUpTo(S, n) == UNION {[1..k -> S] : k \in 0..n}

\* The workers that lint the files of a pull request, one file each.
Workers == {"w1", "w2"}

VARIABLES
    labels_to_add,     \* List[str]
    labels_to_remove,  \* List[str]
    _comments,         \* List[ReviewComment]
    _violated_rules,   \* Set[str]
    call,              \* the last call made on the record, and what it returned
    h_messages,        \* history: location -> the messages reported there, in order
    h_codes,           \* history: the report.code of every report passed
    h_first_seen,      \* history: the locations commented on, in first-seen order
    h_reports,         \* history: number of reports passed to add_comments
    h_errors,          \* history: number of add_error calls
    h_fills,           \* history: number of fill_labels calls
    h_late,            \* history: a rule was first violated after a fill_labels call
    todo,              \* the nodes of the statement the linter has still to visit
    lint_reports,      \* the reports of NamingConventionRule for the statement
    h_visited,         \* history: the nodes of the statement visited so far
    h_attempts,        \* history: the patterns the last visit tried to match
    pending,           \* worker -> the calls it has still to make on the record
    h_plan             \* history: worker -> the calls it was given

vars == <<labels_to_add, labels_to_remove, _comments, _violated_rules, call,
          h_messages, h_codes, h_first_seen, h_reports, h_errors, h_fills,
          h_late, todo, lint_reports, h_visited, h_attempts, pending, h_plan>>

record == <<labels_to_add, labels_to_remove, _comments, _violated_rules>>
history == <<h_messages, h_codes, h_first_seen, h_reports, h_errors, h_fills,
             h_late>>
\* The linter of one file, and the workers that lint files in parallel.
linter == <<todo, lint_reports, h_visited, h_attempts>>
workers == <<pending, h_plan>>

\* ------------------------------------------------------ record.py:16-35
ReviewComment(body, path, line) ==
    [body |-> body, path |-> path, line |-> line, side |-> "RIGHT"]

\* ---------------------------------------------------- record.py:110-121
\* The index of the first comment registered for lineno in filepath, 0 if none.
FirstAt(comments, lineno, filepath) ==
    LET hits == {i \in DOMAIN comments :
                    comments[i].line = lineno /\ comments[i].path = filepath}
    IN  IF hits = {} THEN 0 ELSE CHOOSE i \in hits : \A j \in hits : i <= j

\* Mutant of _lineno_exist: the path of the comment is not compared.
lineno_exist_any_file(comments, lineno, filepath, body) ==
    LET hits == {i \in DOMAIN comments : comments[i].line = lineno}
        i == IF hits = {} THEN 0 ELSE CHOOSE k \in hits : \A j \in hits : k <= j
    IN  IF i = 0
        THEN [found |-> FALSE, comments |-> comments]
        ELSE [found |-> TRUE,
              comments |-> [comments EXCEPT
                               ![i].body = @ \o <<"\n\n", body>>]]

\* [found, comments]: the return value, and the comment list after the call.
_lineno_exist(comments, lineno, filepath, body) ==
    LET i == FirstAt(comments, lineno, filepath)
    IN  IF i = 0
        THEN [found |-> FALSE, comments |-> comments]
        ELSE [found |-> TRUE,
              comments |-> [comments EXCEPT
                               ![i].body = @ \o <<"\n\n", body>>]]

\* ------------------------------------------------------ record.py:58-73
\* Mutant of add_comment: the rule is recorded after the merge test, so only
\* for a report that creates a comment.
add_comment_code_if_new(rec, report, filepath) ==
    LET merged == _lineno_exist(rec.comments, report.line, filepath, report.message)
    IN  IF merged.found
        THEN [violated |-> rec.violated, comments |-> merged.comments]
        ELSE [violated |-> rec.violated \cup {report.code},
              comments |-> Append(rec.comments,
                                  ReviewComment(<<report.message>>, filepath, report.line))]

\* Mutant of add_comment: the set of violated rules is assigned, not added to.
add_comment_last_rule(rec, report, filepath) ==
    LET merged == _lineno_exist(rec.comments, report.line, filepath, report.message)
    IN  [violated |-> {report.code},
         comments |-> IF merged.found
                      THEN merged.comments
                      ELSE Append(rec.comments,
                                  ReviewComment(<<report.message>>, filepath, report.line))]

\* One iteration of the loop over reports.
add_comment(rec, report, filepath) ==
    LET merged == _lineno_exist(rec.comments, report.line, filepath, report.message)
    IN  [violated |-> rec.violated \cup {report.code},
         comments |-> IF merged.found
                      THEN merged.comments
                      ELSE Append(rec.comments,
                                  ReviewComment(<<report.message>>, filepath, report.line))]

RECURSIVE add_comments(_, _, _)
add_comments(rec, reports, filepath) ==
    IF reports = <<>>
    THEN rec
    ELSE add_comments(add_comment(rec, Head(reports), filepath), Tail(reports), filepath)

\* ------------------------------------------------------ record.py:75-87
\* The f-string of lines 83-86.  A TLA+ string cannot hold the backquote
\* character: it is written ' here.
ErrorBody(message, filepath) ==
    <<"An error occured while parsing the file: '", filepath, "'\n'''python\n",
      message, "\n'''">>

\* Mutant of add_error: the comments collected earlier for the failed file are
\* dropped, the error comment stands for the file.
add_error_drops_file(comments, message, filepath, lineno) ==
    LET line == IF lineno = None THEN 1 ELSE lineno[1]
        Other(c) == c.path # filepath
    IN  Append(SelectSeq(comments, Other),
               ReviewComment(ErrorBody(message, filepath), filepath, line))

\* Mutant of add_error: the comment carries the bare message.
add_error_bare_message(comments, message, filepath, lineno) ==
    LET line == IF lineno = None THEN 1 ELSE lineno[1]
    IN  Append(comments, ReviewComment(<<message>>, filepath, line))

add_error(comments, message, filepath, lineno) ==
    LET line == IF lineno = None THEN 1 ELSE lineno[1]
    IN  Append(comments, ReviewComment(ErrorBody(message, filepath), filepath, line))

\* ----------------------------------------------------- record.py:89-101
InSeq(x, s) == \E i \in DOMAIN s : s[i] = x

\* Mutant of fill_label: the label is queued to add without looking whether it
\* is queued already.
fill_label_requeues_add(lab, rule, label, violated, current_labels) ==
    IF rule \in violated
    THEN IF label \notin current_labels
         THEN [lab EXCEPT !.add = Append(@, label)]
         ELSE lab
    ELSE IF label \in current_labels /\ ~InSeq(label, lab.remove)
         THEN [lab EXCEPT !.remove = Append(@, label)]
         ELSE lab

\* Mutant of fill_label: the label is queued to remove without looking whether
\* it is queued already.
fill_label_requeues_remove(lab, rule, label, violated, current_labels) ==
    IF rule \in violated
    THEN IF label \notin current_labels /\ ~InSeq(label, lab.add)
         THEN [lab EXCEPT !.add = Append(@, label)]
         ELSE lab
    ELSE IF label \in current_labels
         THEN [lab EXCEPT !.remove = Append(@, label)]
         ELSE lab

\* Mutant of fill_label: a violated rule's label is queued although the pull
\* request carries it already.
fill_label_ignores_current(lab, rule, label, violated, current_labels) ==
    IF rule \in violated
    THEN IF ~InSeq(label, lab.add)
         THEN [lab EXCEPT !.add = Append(@, label)]
         ELSE lab
    ELSE IF label \in current_labels /\ ~InSeq(label, lab.remove)
         THEN [lab EXCEPT !.remove = Append(@, label)]
         ELSE lab

\* One iteration of the loop over RULE_TO_LABEL.items().
fill_label(lab, rule, label, violated, current_labels) ==
    IF rule \in violated
    THEN IF label \notin current_labels /\ ~InSeq(label, lab.add)
         THEN [lab EXCEPT !.add = Append(@, label)]
         ELSE lab
    ELSE IF label \in current_labels /\ ~InSeq(label, lab.remove)
         THEN [lab EXCEPT !.remove = Append(@, label)]
         ELSE lab

\* Mutant of fill_from: the table is walked from its last entry to its first.
RECURSIVE fill_from_reversed(_, _, _, _)
fill_from_reversed(i, lab, violated, current_labels) ==
    IF i > Len(RULE_TO_LABEL)
    THEN lab
    ELSE LET k == Len(RULE_TO_LABEL) + 1 - i
         IN  fill_from_reversed(i + 1,
                                fill_label(lab, RULE_TO_LABEL[k][1], RULE_TO_LABEL[k][2],
                                           violated, current_labels),
                                violated, current_labels)

RECURSIVE fill_from(_, _, _, _)
fill_from(i, lab, violated, current_labels) ==
    IF i > Len(RULE_TO_LABEL)
    THEN lab
    ELSE fill_from(i + 1,
                   fill_label(lab, RULE_TO_LABEL[i][1], RULE_TO_LABEL[i][2],
                              violated, current_labels),
                   violated, current_labels)

\* Mutant of fill_labels: the loop runs over the violated rules and looks each
\* up in RULE_TO_LABEL, so a rule without an entry raises KeyError and the lists
\* stay as they were.
fill_labels_by_lookup(add, remove, violated, current_labels) ==
    IF violated \subseteq KnownRules
    THEN fill_from(1, [add |-> add, remove |-> remove], violated, current_labels)
    ELSE [add |-> add, remove |-> remove]

fill_labels(add, remove, violated, current_labels) ==
    fill_from(1, [add |-> add, remove |-> remove], violated, current_labels)

\* ---------------------------------------------------- record.py:103-108
asdict(comment) ==
    [body |-> comment.body, path |-> comment.path,
     line |-> comment.line, side |-> comment.side]

collect_comments(comments) ==
    [i \in DOMAIN comments |-> asdict(comments[i])]

\* Mutant of returned_is_comments: the list returned is the list of the record.
returned_is_comments_list == TRUE

\* Whether the list collect_comments returns is the object self._comments: it
\* is not, the comprehension of line 108 builds a new list of new dicts.
returned_is_comments == FALSE

\* ----------------------------------------------------------- history
Loc(path, line) == <<path, line>>
Locations == Paths \X Lines

RECURSIVE SeenAfter(_, _, _)
SeenAfter(seen, reports, filepath) ==
    IF reports = <<>>
    THEN seen
    ELSE LET l == Loc(filepath, Head(reports).line)
         IN  SeenAfter(IF InSeq(l, seen) THEN seen ELSE Append(seen, l),
                       Tail(reports), filepath)

RECURSIVE MessagesAfter(_, _, _)
MessagesAfter(h, reports, filepath) ==
    IF reports = <<>>
    THEN h
    ELSE LET l == Loc(filepath, Head(reports).line)
         IN  MessagesAfter([h EXCEPT ![l] = Append(@, Head(reports).message)],
                           Tail(reports), filepath)

\* op: the method called; args: the arguments of add_error; current_labels: the
\* argument of fill_labels; repeat: the call before it was fill_labels with the
\* same argument; returned: what collect_comments returned.
NoCall ==
    [op |-> "new", args |-> <<>>, current_labels |-> {}, repeat |-> FALSE,
     returned |-> <<>>]

\* ------------------------------------------------------ record.py:38-56
Init ==
    /\ labels_to_add = <<>>
    /\ labels_to_remove = <<>>
    /\ _comments = <<>>
    /\ _violated_rules = {}
    /\ call = NoCall
    /\ h_messages = [l \in Locations |-> <<>>]
    /\ h_codes = {}
    /\ h_first_seen = <<>>
    /\ h_reports = 0
    /\ h_errors = 0
    /\ h_fills = 0
    /\ h_late = FALSE
    /\ todo = <<>>
    /\ lint_reports = <<>>
    /\ h_visited = <<>>
    /\ h_attempts = <<>>
    /\ pending = [w \in Workers |-> <<>>]
    /\ h_plan = [w \in Workers |-> <<>>]

\* A call of add_comments, as it acts on the record and its history.
DoAddComments(reports, filepath) ==
    LET rec == add_comments([comments |-> _comments, violated |-> _violated_rules],
                            reports, filepath)
    IN  /\ _comments' = rec.comments
        /\ _violated_rules' = rec.violated
        /\ call' = [NoCall EXCEPT !.op = "add_comments"]
        /\ h_messages' = MessagesAfter(h_messages, reports, filepath)
        /\ h_codes' = h_codes \cup {reports[i].code : i \in DOMAIN reports}
        /\ h_first_seen' = SeenAfter(h_first_seen, reports, filepath)
        /\ h_reports' = h_reports + Len(reports)
        /\ h_late' = (h_late \/ (h_fills > 0 /\ rec.violated # _violated_rules))
        /\ UNCHANGED <<labels_to_add, labels_to_remove, h_errors, h_fills>>

\* A call of add_error, as it acts on the record and its history.
DoAddError(message, filepath, lineno) ==
    /\ _comments' = add_error(_comments, message, filepath, lineno)
    /\ call' = [NoCall EXCEPT !.op = "add_error",
                              !.args = <<message, filepath, lineno>>]
    /\ h_first_seen' =
           LET l == Loc(filepath, IF lineno = None THEN 1 ELSE lineno[1])
           IN  IF InSeq(l, h_first_seen) THEN h_first_seen
               ELSE Append(h_first_seen, l)
    /\ h_errors' = h_errors + 1
    /\ UNCHANGED <<labels_to_add, labels_to_remove, _violated_rules,
                   h_messages, h_codes, h_reports, h_fills, h_late>>

\* A call of fill_labels, as it acts on the record and its history.
DoFillLabels(current_labels) ==
    LET lab == fill_labels(labels_to_add, labels_to_remove,
                           _violated_rules, current_labels)
    IN  /\ labels_to_add' = lab.add
        /\ labels_to_remove' = lab.remove
        /\ call' = [NoCall EXCEPT !.op = "fill_labels",
                                  !.current_labels = current_labels,
                                  !.repeat = (call.op = "fill_labels" /\
                                              call.current_labels = current_labels)]
        /\ h_fills' = h_fills + 1
        /\ UNCHANGED <<_comments, _violated_rules, h_messages, h_codes,
                       h_first_seen, h_reports, h_errors, h_late>>

AddComments(paths, report_set) ==
    \E filepath \in paths, reports \in SeqsUpTo(report_set, MaxInputs - (h_reports + h_errors)) :
        /\ DoAddComments(reports, filepath)
        /\ UNCHANGED <<linter, workers>>

AddError(paths, linenos) ==
    /\ h_reports + h_errors < MaxInputs
    /\ \E message \in Tracebacks, filepath \in paths, lineno \in linenos :
        /\ DoAddError(message, filepath, lineno)
        /\ UNCHANGED <<linter, workers>>

FillLabels ==
    /\ h_fills < MaxFills
    /\ \E current_labels \in LabelLists :
        /\ DoFillLabels(current_labels)
        /\ UNCHANGED <<linter, workers>>

CollectComments ==
    /\ call' = [NoCall EXCEPT !.op = "collect_comments",
                              !.returned = collect_comments(_comments)]
    /\ UNCHANGED <<record, history, linter, workers>>

\* The linting of the files of a pull request: reports and parse errors come in,
\* and the comments are collected for the review.
Next ==
    \/ AddComments(Paths, Reports)
    \/ AddError(Paths, OptLines)
    \/ CollectComments

Spec == Init /\ [][Next]_vars

\* The labelling of a pull request: reports of every rule come in for one file,
\* parse errors for that file and another, and the labels are filled.
NextLabels ==
    \/ AddComments({"a.py"}, CodeReports)
    \/ AddError(Paths, {None})
    \/ FillLabels

SpecLabels == Init /\ [][NextLabels]_vars

\* The caller of collect_comments changes the list it was given: it drops the
\* first entry.  The record changes with it only if the two are one object.
ChangeReturned ==
    /\ call.op = "collect_comments"
    /\ call.returned # <<>>
    /\ call' = [call EXCEPT !.op = "changed", !.returned = Tail(@)]
    /\ _comments' = IF returned_is_comments THEN Tail(_comments) ELSE _comments
    /\ UNCHANGED <<labels_to_add, labels_to_remove, _violated_rules, history,
                   linter, workers>>

\* The reports of one file from two rules with a label, each at its own line.
FrameReports ==
    {[line |-> 1, message |-> "m1", code |-> "RequireTypeHintRule"],
     [line |-> 2, message |-> "m2", code |-> "RequireDescriptiveNameRule"]}

\* Every method of the record, in any order, and a caller that changes what
\* collect_comments returned.
NextFrame ==
    \/ AddComments({"a.py"}, FrameReports)
    \/ AddError({"a.py"}, {None})
    \/ FillLabels
    \/ CollectComments
    \/ ChangeReturned

SpecFrame == Init /\ [][NextFrame]_vars

\* ------------------------------------------------- files linted in parallel
\* Calls all the workers make on one record.
MaxCalls == 3

\* The file each worker lints.
FileOf == [w \in Workers |-> IF w = "w1" THEN "a.py" ELSE "b.py"]

\* A call a worker makes for its file: add_comments with the reports of a rule,
\* or add_error when the file did not parse.
WorkerCalls ==
    {[op |-> "add_comments", reports |-> <<r>>, message |-> "", lineno |-> None] :
        r \in [line : {1}, message : {"m1"},
               code : {"RequireDescriptiveNameRule", "RequireTypeHintRule"}]}
    \cup {[op |-> "add_error", reports |-> <<>>, message |-> t, lineno |-> None] :
             t \in Tracebacks}

Idle == [w \in Workers |-> <<>>]

\* The calls of every worker, in the order in which it makes them.
Plans ==
    {plan \in [Workers -> SeqsUpTo(WorkerCalls, MaxCalls)] :
        Len(plan["w1"]) + Len(plan["w2"]) \in 1..MaxCalls}

\* The workers are given their files.
Dispatch ==
    /\ call.op = "new"
    /\ h_plan = Idle
    /\ \E plan \in Plans :
        /\ pending' = plan
        /\ h_plan' = plan
    /\ UNCHANGED <<record, call, history, linter>>

\* A worker makes its next call; the call runs to its end before another starts.
WorkerAddComments ==
    \E w \in Workers :
        /\ pending[w] # <<>>
        /\ Head(pending[w]).op = "add_comments"
        /\ DoAddComments(Head(pending[w]).reports, FileOf[w])
        /\ pending' = [pending EXCEPT ![w] = Tail(@)]
        /\ UNCHANGED <<linter, h_plan>>

WorkerAddError ==
    \E w \in Workers :
        /\ pending[w] # <<>>
        /\ Head(pending[w]).op = "add_error"
        /\ DoAddError(Head(pending[w]).message, FileOf[w], Head(pending[w]).lineno)
        /\ pending' = [pending EXCEPT ![w] = Tail(@)]
        /\ UNCHANGED <<linter, h_plan>>

\* When every worker is done the labels are filled, once.
FillWhenDone ==
    /\ h_plan # Idle
    /\ pending = Idle
    /\ h_fills = 0
    /\ \E current_labels \in LabelLists :
        /\ DoFillLabels(current_labels)
        /\ UNCHANGED <<linter, workers>>

NextParallel ==
    \/ Dispatch
    \/ WorkerAddComments
    \/ WorkerAddError
    \/ FillWhenDone

SpecParallel == Init /\ [][NextParallel]_vars

\* ============================================ rules/naming_convention.py
\* Characters of an identifier, longest name, parameters of a function and
\* targets of a chained assignment.
MaxNameLen == 2
MaxParams == 1
MaxTargets == 2

\* The characters of an identifier by what str.islower and str.isupper say of
\* them.  "U+4E2D" stands for a letter that has no case (a CJK ideograph), which
\* an identifier may hold and start with; "1" for a digit.
LowerChars == {"a"}
UpperChars == {"B"}
UncasedChars == {"U+4E2D"}
FirstChars == LowerChars \cup UpperChars \cup UncasedChars \cup {"_"}
Chars == FirstChars \cup {"1"}

islower(c) == c \in LowerChars
isupper(c) == c \in UpperChars

\* Identifiers, as sequences of characters.
Names == {n \in SeqsUpTo(Chars, MaxNameLen) : n # <<>> /\ n[1] \in FirstChars}
\* The names of the parameters and of the targets of chains and tuples.
FewNames == {<<c>> : c \in FirstChars}

\* ------------------------------------------------------------ libcst nodes
Name(value) == [type |-> "Name", value |-> value]
Tuple(elements) == [type |-> "Tuple", elements |-> elements]
ClassDef(name) == [type |-> "ClassDef", name |-> Name(name)]
FunctionDef(name) == [type |-> "FunctionDef", name |-> Name(name)]
Param(name) == [type |-> "Param", name |-> Name(name)]
AssignTarget(target) == [type |-> "AssignTarget", target |-> target]
For(target) == [type |-> "For", target |-> target]
NamedExpr(target) == [type |-> "NamedExpr", target |-> target]
\* value: None (<<>>) for "var: int", <<expression>> for "var: int = 5".
AnnAssign(target, value) == [type |-> "AnnAssign", target |-> target, value |-> value]

\* The target of an assignment or of a for statement: a name, or a tuple of two.
Targets ==
    {Name(n) : n \in FewNames}
        \cup {Tuple(<<Name(a), Name(b)>>) : a \in FewNames, b \in FewNames}

\* A statement, as the nodes the rule has a visitor for, in the order in which
\* the tree is walked: a class, a function with its parameters, a (chained)
\* assignment with its targets, an annotated name, a for statement, a named
\* expression.
Statements ==
    {<<ClassDef(n)>> : n \in Names}
        \cup {<<FunctionDef(n)>> \o [i \in DOMAIN ps |-> Param(ps[i])] :
                 n \in Names, ps \in SeqsUpTo(FewNames, MaxParams)}
        \cup {[i \in DOMAIN ts |-> AssignTarget(ts[i])] :
                 ts \in SeqsUpTo(Targets, MaxTargets) \ {<<>>}}
        \cup {<<AssignTarget(Name(n))>> : n \in Names}
        \cup {<<AnnAssign(Name(n), v)>> : n \in Names, v \in {None, <<"5">>}}
        \cup {<<For(t)>> : t \in Targets \cup {Name(n) : n \in Names}}
        \cup {<<NamedExpr(Name(n))>> : n \in Names}

\* ------------------------------------------- naming_convention.py:9-19
\* str.format on the two templates: the text, and what the fields are filled with.
\* The backquotes of the text are written ' here.
INVALID_CAMEL_CASE_NAME(nodename) ==
    [text |-> "Class names should follow the ['CamelCase'](https://en.wikipedia.org/wiki/Camel_case) naming convention. Please update the name of the class '{nodename}' accordingly. ",
     nodename |-> nodename]

INVALID_SNAKE_CASE_NAME(nodetype, nodename) ==
    [text |-> "Variable and function names should follow the ['snake_case'](https://en.wikipedia.org/wiki/Snake_case) naming convention. Please update the name of the {nodetype} '{nodename}' accordingly. ",
     nodetype |-> nodetype, nodename |-> nodename]

\* ------------------------------------------ naming_convention.py:22-27
\* Mutant of _any_uppercase_letter: the loop returns in its first round.
any_uppercase_first_letter(name) ==
    IF name = <<>> THEN FALSE ELSE isupper(Head(name))

RECURSIVE _any_uppercase_letter(_)
_any_uppercase_letter(name) ==
    IF name = <<>>
    THEN FALSE
    ELSE IF isupper(Head(name)) THEN TRUE ELSE _any_uppercase_letter(Tail(name))

\* What a visitor leaves: the reports it made, and the patterns it tried.
Nothing == [reports |-> <<>>, attempts |-> <<>>]
Report(node, message) == [node |-> node, message |-> message]

\* ------------------------------------------ naming_convention.py:60-63
visit_ClassDef(node) ==
    LET nodename == node.name.value
    IN  IF islower(nodename[1]) \/ InSeq("_", nodename)
        THEN [Nothing EXCEPT
                 !.reports = <<Report(node, INVALID_CAMEL_CASE_NAME(nodename))>>]
        ELSE Nothing

\* ---------------------------------------- naming_convention.py:113-140
\* The node types the two patterns accept, and the field they look at.
NameTypes == {"FunctionDef", "Param"}
TargetTypes == {"AnnAssign", "AssignTarget", "For", "NamedExpr"}

\* m.extract(node, m.TypeOf(types)(field=m.Name(value=m.SaveMatchedNode(
\* m.MatchIfTrue(_any_uppercase_letter), "nodename")))): the captures of a match,
\* None (matched is FALSE) without one.
NoMatch == [matched |-> FALSE]

extract(node, types, field) ==
    IF /\ node.type \in types
       /\ node[field].type = "Name"
       /\ _any_uppercase_letter(node[field].value)
    THEN [matched |-> TRUE, nodename |-> node[field].value]
    ELSE NoMatch

_validate_snake_case_name(node, nodetype) ==
    LET first == extract(node, NameTypes, "name")
        extracted == IF first.matched
                     THEN first
                     ELSE extract(node, TargetTypes, "target")
    IN  [reports |-> IF extracted.matched
                     THEN <<Report(node, INVALID_SNAKE_CASE_NAME(
                                             nodetype, extracted.nodename))>>
                     ELSE <<>>,
         attempts |-> IF first.matched THEN <<"name">> ELSE <<"name", "target">>]

\* ------------------------------------------ naming_convention.py:65-84
\* Mutant of visit_AnnAssign: the name is checked without looking for a value.
visit_AnnAssign_any(node) == _validate_snake_case_name(node, "variable")

visit_AnnAssign(node) ==
    IF node.value # None
    THEN _validate_snake_case_name(node, "variable")
    ELSE Nothing

visit_AssignTarget(node) == _validate_snake_case_name(node, "variable")

visit_For(node) == _validate_snake_case_name(node, "variable")

visit_FunctionDef(node) == _validate_snake_case_name(node, "function")

visit_NamedExpr(node) == _validate_snake_case_name(node, "variable")

\* Mutant of visit_Param: the node type of the assignment visitors is passed.
visit_Param_as_variable(node) == _validate_snake_case_name(node, "variable")

visit_Param(node) == _validate_snake_case_name(node, "parameter")

\* ------------------------------------------------------- the linter
\* A statement comes under the rule, which has visited nothing yet.
Lint ==
    /\ todo = <<>>
    /\ h_visited = <<>>
    /\ \E statement \in Statements : todo' = statement
    /\ lint_reports' = <<>>
    /\ h_visited' = <<>>
    /\ h_attempts' = <<>>
    /\ UNCHANGED <<record, call, history, workers>>

\* The walk is at a node of the type, and the visitor leaves result.
Visit(type, result) ==
    /\ todo # <<>>
    /\ Head(todo).type = type
    /\ todo' = Tail(todo)
    /\ lint_reports' = lint_reports \o result.reports
    /\ h_visited' = Append(h_visited, Head(todo))
    /\ h_attempts' = result.attempts
    /\ UNCHANGED <<record, call, history, workers>>

VisitClassDef == todo # <<>> /\ Visit("ClassDef", visit_ClassDef(Head(todo)))
VisitAnnAssign == todo # <<>> /\ Visit("AnnAssign", visit_AnnAssign(Head(todo)))
VisitAssignTarget == todo # <<>> /\ Visit("AssignTarget", visit_AssignTarget(Head(todo)))
VisitFor == todo # <<>> /\ Visit("For", visit_For(Head(todo)))
VisitFunctionDef == todo # <<>> /\ Visit("FunctionDef", visit_FunctionDef(Head(todo)))
VisitNamedExpr == todo # <<>> /\ Visit("NamedExpr", visit_NamedExpr(Head(todo)))
VisitParam == todo # <<>> /\ Visit("Param", visit_Param(Head(todo)))

NextNaming ==
    \/ Lint
    \/ VisitClassDef
    \/ VisitAnnAssign
    \/ VisitAssignTarget
    \/ VisitFor
    \/ VisitFunctionDef
    \/ VisitNamedExpr
    \/ VisitParam

SpecNaming == Init /\ [][NextNaming]_vars

\* ================================================================ claims
CommentsAt(comments, path, line) ==
    {i \in DOMAIN comments : comments[i].path = path /\ comments[i].line = line}

\* The messages joined by a blank line, as fragments.
RECURSIVE Joined(_)
Joined(messages) ==
    IF Len(messages) <= 1
    THEN messages
    ELSE Joined(SubSeq(messages, 1, Len(messages) - 1))
             \o <<"\n\n", messages[Len(messages)]>>

\* C1: in every reachable state of a record (add_comments and add_error calls in
\* any order), the comment list holds at most one comment for each (path, line).
C1_OneCommentPerLocation ==
    \A l \in Locations : Cardinality(CommentsAt(_comments, l[1], l[2])) <= 1

\* C2: after add_comments calls alone on a fresh record, every location that was
\* reported has exactly one comment, whose body is the messages reported for that
\* location in their order, joined by a blank line; no other location has one.
C2_BodyIsJoinedMessages ==
    h_errors = 0 =>
        \A l \in Locations :
            LET at == CommentsAt(_comments, l[1], l[2])
            IN  IF h_messages[l] = <<>>
                THEN at = {}
                ELSE /\ Cardinality(at) = 1
                     /\ \A i \in at : _comments[i].body = Joined(h_messages[l])

\* Two locations were reported, one of them twice with different messages, and
\* all of it is in two comments.
C2_Witness ==
    /\ h_errors = 0
    /\ Len(_comments) = 2
    /\ \E l \in Locations : h_messages[l] = <<"m2", "m1">>
    /\ \E i \in DOMAIN _comments : _comments[i].body = <<"m2", "\n\n", "m1">>

\* C3: add_error merges like add_comments: a step of add_error adds a comment only
\* when no comment existed at its location; otherwise the number of comments stays
\* and the error text goes after a blank line into the comment that was there.
C3_AddErrorMerges ==
    [][h_errors' = h_errors + 1 =>
          LET new == _comments'[Len(_comments')]
              at == CommentsAt(_comments, new.path, new.line)
          IN  at # {} =>
                  /\ Len(_comments') = Len(_comments)
                  /\ \E i \in at : \E message \in Tracebacks :
                         _comments'[i].body =
                             _comments[i].body \o <<"\n\n">>
                                 \o ErrorBody(message, new.path)]_vars

\* C4: after any sequence of add_comments calls the violated-rule set is exactly
\* the set of the codes of the reports passed, merged into a comment or not.
C4_ViolatedRulesAreReportedCodes ==
    _violated_rules = h_codes

\* Three reports with three codes went into one comment.
C4_Witness ==
    /\ h_errors = 0
    /\ Len(_comments) = 1
    /\ h_reports = 3
    /\ Cardinality(_violated_rules) = 3
    /\ Cardinality(h_codes) = 3

\* C5: right after the first fill_labels(current_labels) call, for every entry
\* (rule, label) of RULE_TO_LABEL: label is in labels_to_add iff rule is violated
\* and label is not in current_labels; label is in labels_to_remove iff rule is
\* not violated and label is in current_labels.
C5_SingleFillDecision ==
    (call.op = "fill_labels" /\ h_fills = 1) =>
        \A i \in DOMAIN RULE_TO_LABEL :
            LET rule == RULE_TO_LABEL[i][1]
                label == RULE_TO_LABEL[i][2]
            IN  /\ InSeq(label, labels_to_add) <=>
                       (rule \in _violated_rules /\ label \notin call.current_labels)
                /\ InSeq(label, labels_to_remove) <=>
                       (rule \notin _violated_rules /\ label \in call.current_labels)

\* One fill_labels call took each of the three decisions: a label to add, a label
\* to remove, and a violated rule whose label is there already.
C5_Witness ==
    /\ call.op = "fill_labels"
    /\ h_fills = 1
    /\ labels_to_add = <<"DESCRIPTIVE_NAME">>
    /\ labels_to_remove = <<"REQUIRE_TEST">>
    /\ _violated_rules = {"RequireDescriptiveNameRule", "RequireTypeHintRule"}
    /\ call.current_labels = {"REQUIRE_TEST", "TYPE_HINT"}

NoDuplicates(s) == \A i, j \in DOMAIN s : s[i] = s[j] => i = j
Disjoint(s, t) == \A i \in DOMAIN s : \A j \in DOMAIN t : s[i] # t[j]

\* C6 as claimed: in every reachable state (add_comments, add_error and fill_labels
\* in any order, fill_labels any number of times), labels_to_add and
\* labels_to_remove have no label in common and neither holds a label twice.
C6_LabelListsDisjoint ==
    /\ Disjoint(labels_to_add, labels_to_remove)
    /\ NoDuplicates(labels_to_add)
    /\ NoDuplicates(labels_to_remove)

\* C6 as amended: neither list ever holds a label twice, and the two lists have no
\* label in common as long as no add_comments call has added a rule to the
\* violated-rule set after a fill_labels call.
C6_LabelListsDisjointUnlessLate ==
    /\ NoDuplicates(labels_to_add)
    /\ NoDuplicates(labels_to_remove)
    /\ ~h_late => Disjoint(labels_to_add, labels_to_remove)

\* fill_labels ran twice after reports and a parse error, and both lists are filled.
C6_Witness ==
    /\ h_fills = 2
    /\ h_reports > 0
    /\ h_errors > 0
    /\ ~h_late
    /\ Len(labels_to_add) = 1
    /\ Len(labels_to_remove) = 2

\* C7: a fill_labels call that follows a fill_labels call with the same
\* current_labels (the violated-rule set is then unchanged too) leaves
\* labels_to_add and labels_to_remove as they were.
C7_FillLabelsIdempotent ==
    [][(h_fills' = h_fills + 1 /\ call'.repeat) =>
          /\ labels_to_add' = labels_to_add
          /\ labels_to_remove' = labels_to_remove]_vars

\* fill_labels was called again with the same labels, on lists that are not empty.
C7_Witness ==
    /\ call.op = "fill_labels"
    /\ call.repeat
    /\ labels_to_add # <<>>
    /\ labels_to_remove # <<>>

\* C8: a rule without an entry in RULE_TO_LABEL is recorded as violated by
\* add_comments, and every fill_labels call leaves the two lists as it would with
\* that rule taken out of the violated-rule set.
C8_UnknownRuleIgnored ==
    [][h_fills' = h_fills + 1 =>
          LET lab == fill_labels(labels_to_add, labels_to_remove,
                                 _violated_rules \ UnknownRules,
                                 call'.current_labels)
          IN  /\ h_codes \cap UnknownRules \subseteq _violated_rules
              /\ labels_to_add' = lab.add
              /\ labels_to_remove' = lab.remove]_vars

\* fill_labels has run on a record with an unknown rule violated, and filled both
\* lists.
C8_Witness ==
    /\ call.op = "fill_labels"
    /\ UnknownRules \subseteq _violated_rules
    /\ labels_to_add # <<>>
    /\ labels_to_remove # <<>>

\* C9: what collect_comments returns has one entry per stored comment, the
\* locations of the entries are the locations commented on in the order they were
\* first seen, and every entry has the fields body, path, line, side, with side
\* "RIGHT".
C9_CollectedInFirstSeenOrder ==
    call.op = "collect_comments" =>
        LET r == call.returned
        IN  /\ Len(r) = Len(_comments)
            /\ [i \in DOMAIN r |-> Loc(r[i].path, r[i].line)] = h_first_seen
            /\ \A i \in DOMAIN r :
                   /\ DOMAIN r[i] = {"body", "path", "line", "side"}
                   /\ r[i].side = "RIGHT"
                   /\ r[i].body = _comments[i].body

IsPrefix(s, t) == Len(s) <= Len(t) /\ SubSeq(t, 1, Len(s)) = s

OfFile(comments, path) ==
    LET Here(c) == c.path = path
    IN  SelectSeq(comments, Here)

\* C10: no call removes or moves a comment collected earlier, and its body stays
\* a prefix of the later body; add_error leaves the violated-rule set and the two
\* label lists alone, and an add_comments call for another file gives that file
\* the same comments and the record the same violated rules after the add_error
\* as before it.
C10_FailuresContained ==
    [][/\ Len(_comments) <= Len(_comments')
       /\ \A i \in DOMAIN _comments :
              /\ _comments'[i].path = _comments[i].path
              /\ _comments'[i].line = _comments[i].line
              /\ _comments'[i].side = _comments[i].side
              /\ IsPrefix(_comments[i].body, _comments'[i].body)
       /\ h_errors' = h_errors + 1 =>
              /\ _violated_rules' = _violated_rules
              /\ labels_to_add' = labels_to_add
              /\ labels_to_remove' = labels_to_remove
              /\ \A g \in Paths \ {_comments'[Len(_comments')].path} :
                 \A reports \in SeqsUpTo(CodeReports, 1) :
                     LET before == add_comments([comments |-> _comments,
                                                 violated |-> _violated_rules],
                                                reports, g)
                         after == add_comments([comments |-> _comments',
                                                violated |-> _violated_rules'],
                                               reports, g)
                     IN  /\ OfFile(after.comments, g) = OfFile(before.comments, g)
                         /\ after.violated = before.violated]_vars

\* A parse error of b.py came after a comment for a.py and a fill_labels call,
\* and a report for a.py came after it.
C10_Witness ==
    /\ call.op = "add_comments"
    /\ h_errors = 1
    /\ labels_to_add # <<>>
    /\ Len(_comments) = 2
    /\ _comments[1].path = "a.py"
    /\ _comments[1].body = <<"m1", "\n\n", "m1">>
    /\ _comments[2].path = "b.py"

\* ------------------------------------------------- claims on the rule
HasUpper(name) == \E i \in DOMAIN name : name[i] \in UpperChars

\* The node defines one name: a function, a parameter, or a statement with a
\* value whose target is a name.
SingleName(node) ==
    \/ node.type \in NameTypes
    \/ /\ node.type \in TargetTypes
       /\ node.target.type = "Name"
       /\ node.type = "AnnAssign" => node.value # None

NodeName(node) ==
    IF node.type \in NameTypes THEN node.name.value ELSE node.target.value

Offending(nodes) ==
    LET Bad(node) == HasUpper(NodeName(node))
    IN  SelectSeq(nodes, Bad)

\* C11: a visited class definition is reported iff its name does not start with
\* an uppercase letter or holds an underscore, and then exactly once, with the
\* name in the message.
C11_ClassNameReported ==
    (todo = <<>> /\ Len(h_visited) = 1 /\ h_visited[1].type = "ClassDef") =>
        LET nodename == h_visited[1].name.value
        IN  /\ lint_reports # <<>> <=>
                   (nodename[1] \notin UpperChars \/ InSeq("_", nodename))
            /\ lint_reports # <<>> =>
                   /\ Len(lint_reports) = 1
                   /\ lint_reports[1].message.nodename = nodename

\* C12: of the nodes visited that define one name, exactly those whose name holds
\* an uppercase letter are reported, each once and in the order of the visits,
\* the targets of a chained assignment each for itself, and the name captured is
\* the name of the node.
C12_UppercaseNamesReported ==
    (\A i \in DOMAIN h_visited : SingleName(h_visited[i])) =>
        LET bad == Offending(h_visited)
        IN  /\ Len(lint_reports) = Len(bad)
            /\ \A k \in DOMAIN bad :
                   /\ lint_reports[k].node = bad[k]
                   /\ lint_reports[k].message.nodename = NodeName(bad[k])

\* Of the two targets of a chained assignment the second one alone is reported.
C12_Witness ==
    /\ todo = <<>>
    /\ Len(h_visited) = 2
    /\ h_visited[1] = AssignTarget(Name(<<"a">>))
    /\ h_visited[2].type = "AssignTarget"
    /\ Len(lint_reports) = 1
    /\ lint_reports[1].node = h_visited[2]

\* C13: for an assignment or a for statement whose target is a tuple of names,
\* every name of the tuple that holds an uppercase letter is reported.
C13_TupleTargetsReported ==
    \A i \in DOMAIN h_visited :
        (h_visited[i].type \in {"AssignTarget", "For"}
            /\ h_visited[i].target.type = "Tuple") =>
            \A k \in DOMAIN h_visited[i].target.elements :
                LET element == h_visited[i].target.elements[k].value
                IN  HasUpper(element) =>
                        \E r \in DOMAIN lint_reports :
                            lint_reports[r].message.nodename = element

Role(type) ==
    IF type = "FunctionDef" THEN "function"
    ELSE IF type = "Param" THEN "parameter" ELSE "variable"

\* C16: a visit of a node makes at most one report; the second pattern is tried
\* only when the first one did not match, and no node type is accepted by both;
\* the message of a function, parameter or variable names that role.
C16_OneReportPerVisit ==
    [][Len(h_visited') = Len(h_visited) + 1 =>
          LET node == h_visited'[Len(h_visited')]
              new == SubSeq(lint_reports', Len(lint_reports) + 1, Len(lint_reports'))
          IN  /\ SubSeq(lint_reports', 1, Len(lint_reports)) = lint_reports
              /\ Len(new) <= 1
              /\ NameTypes \cap TargetTypes = {}
              /\ Len(h_attempts') <= 2
              /\ Len(h_attempts') = 2 =>
                     ~(node.type \in NameTypes /\ HasUpper(node.name.value))
              /\ (new # <<>> /\ node.type # "ClassDef") =>
                     /\ new[1].node = node
                     /\ new[1].message.nodetype = Role(node.type)]_vars

\* A function and its parameter were both reported, the parameter last and on
\* the first pattern.
C16_Witness ==
    /\ Len(h_visited) = 2
    /\ h_visited[1].type = "FunctionDef"
    /\ h_visited[2].type = "Param"
    /\ Len(lint_reports) = 2
    /\ lint_reports[1].message.nodetype = "function"
    /\ lint_reports[2].message.nodetype = "parameter"
    /\ h_attempts = <<"name">>

\* C17: an annotated name without a value is not reported whatever the name is;
\* with a value it is reported iff the name holds an uppercase letter.
C17_AnnotationWithoutValueSkipped ==
    (Len(h_visited) = 1 /\ h_visited[1].type = "AnnAssign") =>
        LET node == h_visited[1]
        IN  IF node.value = None
            THEN lint_reports = <<>>
            ELSE lint_reports # <<>> <=> HasUpper(node.target.value)

\* "B: int" was visited and nothing was reported.
C17_Witness ==
    /\ todo = <<>>
    /\ h_visited = <<AnnAssign(Name(<<"B">>), None)>>
    /\ lint_reports = <<>>

\* ------------------------------------------------ claims on the record, II
Last(s) == s[Len(s)]

\* C15: add_error(message, filepath, lineno) records its comment at line 1 when
\* lineno is None and at lineno otherwise, at path filepath, and the text of the
\* comment is the template that names the file and carries the message in a
\* fenced block, never the message alone.
C15_ErrorCommentFromTemplate ==
    call.op = "add_error" =>
        LET message == call.args[1]
            filepath == call.args[2]
            lineno == call.args[3]
            c == Last(_comments)
        IN  /\ c.path = filepath
            /\ lineno = None => c.line = 1
            /\ lineno # None => c.line = lineno[1]
            /\ c.body = <<"An error occured while parsing the file: '", filepath,
                          "'\n'''python\n", message, "\n'''">>
            /\ c.body # <<message>>

\* A parse error of b.py without a line, after a report for a.py.
C15_Witness ==
    /\ call.op = "add_error"
    /\ call.args = <<"tb", "b.py", None>>
    /\ Len(_comments) = 2
    /\ Last(_comments).line = 1
    /\ _comments[1].path = "a.py"

\* C18: add_comments and add_error leave the two label lists as they were;
\* fill_labels leaves the comments, their bodies and the violated-rule set as
\* they were; collect_comments leaves the whole record as it was, and so does a
\* change to the list it returned.
C18_FrameEffects ==
    [][/\ call'.op \in {"add_comments", "add_error"} =>
            /\ labels_to_add' = labels_to_add
            /\ labels_to_remove' = labels_to_remove
       /\ call'.op = "fill_labels" =>
            /\ _comments' = _comments
            /\ _violated_rules' = _violated_rules
       /\ call'.op \in {"collect_comments", "changed"} =>
            record' = record]_vars

\* Labels filled with nothing violated, then a report of a rule with a label,
\* which the lists do not reflect, then the comments collected and the returned
\* list emptied while the record keeps its comment.
C18_Witness ==
    /\ call.op = "changed"
    /\ call.returned = <<>>
    /\ Len(_comments) = 1
    /\ h_fills = 1
    /\ h_late
    /\ "RequireTypeHintRule" \in _violated_rules
    /\ labels_to_add = <<>>

\* ------------------------------------------------- claims on parallel files
Fresh == [comments |-> <<>>, violated |-> {}]

RunCall(rec, c, filepath) ==
    IF c.op = "add_comments"
    THEN add_comments(rec, c.reports, filepath)
    ELSE [rec EXCEPT !.comments = add_error(@, c.message, filepath, c.lineno)]

RECURSIVE RunFile(_, _, _)
RunFile(rec, calls, filepath) ==
    IF calls = <<>>
    THEN rec
    ELSE RunFile(RunCall(rec, Head(calls), filepath), Tail(calls), filepath)

\* The files processed one after the other, in the given order of the workers.
Sequential(plan, first, second) ==
    RunFile(RunFile(Fresh, plan[first], FileOf[first]), plan[second], FileOf[second])

Triples(comments) ==
    {<<comments[i].path, comments[i].line, comments[i].body>> : i \in DOMAIN comments}

AllDone == h_plan # Idle /\ pending = Idle

\* C14: when every worker has made its calls, each call run to its end before
\* the next, the violated-rule set and the set of (path, line, body) comments
\* are those of processing the files one after the other, whatever the
\* interleaving was, and fill_labels then gives the lists it gives after the
\* sequential processing.
C14_InterleavingAsSequential ==
    AllDone =>
        \A first \in Workers : \A second \in Workers \ {first} :
            LET seq == Sequential(h_plan, first, second)
            IN  /\ _violated_rules = seq.violated
                /\ Triples(_comments) = Triples(seq.comments)
                /\ call.op = "fill_labels" =>
                       LET lab == fill_labels(<<>>, <<>>, seq.violated,
                                              call.current_labels)
                       IN  /\ labels_to_add = lab.add
                           /\ labels_to_remove = lab.remove

\* The calls came in an order that is not one file after the other: a.py, b.py,
\* a.py again; then the labels were filled.
C14_Witness ==
    /\ AllDone
    /\ call.op = "fill_labels"
    /\ Len(h_plan["w1"]) = 2
    /\ Len(h_plan["w2"]) = 1
    /\ Len(_comments) = 3
    /\ _comments[1].path = "a.py"
    /\ _comments[2].path = "b.py"
    /\ _comments[3].path = "a.py"
    /\ _violated_rules = {"RequireDescriptiveNameRule", "RequireTypeHintRule"}

\* The labels of S in the order of their entries in RULE_TO_LABEL.
InTableOrder(S) ==
    LET labels == [i \in DOMAIN RULE_TO_LABEL |-> RULE_TO_LABEL[i][2]]
        InS(label) == label \in S
    IN  SelectSeq(labels, InS)

\* C19: after one fill_labels on a record that was fresh before the reports
\* came, the two lists depend only on which rules were reported and on
\* current_labels, not on the order of the reports, and each list is in the
\* order of RULE_TO_LABEL.
C19_LabelsInTableOrder ==
    (call.op = "fill_labels" /\ h_fills = 1) =>
        /\ labels_to_add =
               InTableOrder({RULE_TO_LABEL[i][2] : i \in
                   {i \in DOMAIN RULE_TO_LABEL :
                       /\ RULE_TO_LABEL[i][1] \in h_codes
                       /\ RULE_TO_LABEL[i][2] \notin call.current_labels}})
        /\ labels_to_remove =
               InTableOrder({RULE_TO_LABEL[i][2] : i \in
                   {i \in DOMAIN RULE_TO_LABEL :
                       /\ RULE_TO_LABEL[i][1] \notin h_codes
                       /\ RULE_TO_LABEL[i][2] \in call.current_labels}})

\* The last rule of the table was reported first (its comment, at line 1, is
\* the first), the first rule of the table after it (at line 2); the labels
\* come in table order.
C19_Witness ==
    /\ call.op = "fill_labels"
    /\ h_fills = 1
    /\ Len(_comments) = 2
    /\ _comments[1].line = 1
    /\ _comments[2].line = 2
    /\ call.current_labels = {"REQUIRE_TEST"}
    /\ labels_to_add = <<"DESCRIPTIVE_NAME", "TYPE_HINT">>
    /\ labels_to_remove = <<"REQUIRE_TEST">>

====
